---- MODULE Spec2Model ----
(***************************************************************************)
(* Hybrid product search of the Supportly product database:                *)
(* ProductsRepository (search_products, hybrid_search, _filter_candidates, *)
(* _fallback_search), the in-memory DatabaseConnection.execute_query, the  *)
(* VectorDatabase.semantic_search adapter, ProductsAgent (search_products,*)
(* check_product_availability, get_category_products, ...), the inventory  *)
(* reads, ProductsTool.execute and the executor registered by              *)
(* ProductsToolIntegration.register_with_app.                              *)
(***************************************************************************)
EXTENDS Integers, Sequences, FiniteSets, TLC

(***************************************************************************)
(* Bounds of the explored inputs.                                          *)
(***************************************************************************)
MaxLimit == 2
MaxOffset == 1
MaxRequests == 2

(***************************************************************************)
(* Python values.  None is NONE for numbers and NoneStr for the size and   *)
(* colour strings; text is a sequence of one-character strings.            *)
(***************************************************************************)
NONE == -1
NoneStr == "None"

Lower(c) ==
    CASE c = "A" -> "a" [] c = "C" -> "c" [] c = "M" -> "m" [] c = "N" -> "n"
      [] c = "P" -> "p" [] c = "R" -> "r" [] c = "S" -> "s"
      [] OTHER -> c

\* str.lower()
StrLower(s) == [i \in 1..Len(s) |-> Lower(s[i])]

\* Python's `sub in s` on strings
StrContains(sub, s) ==
    \E i \in 1..(Len(s) - Len(sub) + 1) : SubSeq(s, i, i + Len(sub) - 1) = sub

\* str.split(): the maximal runs of non-blank characters (as a set of terms)
StrSplit(s) ==
    { SubSeq(s, r[1], r[2]) :
        r \in { x \in (1..Len(s)) \X (1..Len(s)) :
                  /\ x[1] <= x[2]
                  /\ \A k \in x[1]..x[2] : s[k] # " "
                  /\ (x[1] = 1 \/ s[x[1] - 1] = " ")
                  /\ (x[2] = Len(s) \/ s[x[2] + 1] = " ") } }

\* list.sort(key=...): Python's sort is stable; keys[i] is the key of seq[i]
StableSort(seq, keys) ==
    LET n == Len(seq)
        Rank(i) == Cardinality({ j \in 1..n :
                       keys[j] < keys[i] \/ (keys[j] = keys[i] /\ j < i) }) + 1
    IN  [r \in 1..n |-> seq[CHOOSE i \in 1..n : Rank(i) = r]]

\* a list comprehension [p for p in seq if Keep(p)]
RECURSIVE FilterIdx(_, _, _)
FilterIdx(seq, keep, i) ==
    IF i > Len(seq) THEN <<>>
    ELSE (IF keep[i] THEN <<seq[i]>> ELSE <<>>) \o FilterIdx(seq, keep, i + 1)

SelectBy(seq, keep) == FilterIdx(seq, keep, 1)

\* seq[a:b] for 0 <= a, the Python slice
Slice(seq, a, b) ==
    IF b <= a THEN <<>>
    ELSE SubSeq(seq, a + 1, IF b < Len(seq) THEN b ELSE Len(seq))

Min(a, b) == IF a < b THEN a ELSE b

(***************************************************************************)
(* IN_MEMORY_DB: brands, categories and the product snapshot.              *)
(***************************************************************************)
sNike == <<"N","i","k","e">>
sPuma == <<"P","u","m","a">>
sRunning == <<"R","u","n","n","i","n","g">>
sCasual == <<"C","a","s","u","a","l">>

Brands == << [id |-> 1, name |-> sNike], [id |-> 2, name |-> sPuma] >>
Categories == << [id |-> 1, name |-> sRunning], [id |-> 2, name |-> sCasual] >>

\* keys a product dict may or may not carry
OptionalKeys == {"is_featured", "brand_name", "category_name", "avg_rating",
                 "review_count", "relevance_score"}

Product(id, name, descr, b, c, price, sale, onSale, keys, featured, akeys, sizes, color) ==
    [id |-> id, name |-> name, description |-> descr, brand_id |-> b,
     category_id |-> c, price |-> price, sale_price |-> sale,
     is_on_sale |-> onSale, keys |-> keys, is_featured |-> featured,
     attributes |-> [akeys |-> akeys, sizes |-> sizes, color |-> color],
     relevance_score |-> 0]

P1 == Product(1, <<"N","i","k","e"," ","A","i","r">>, <<"a","i","r"," ","m","a","x">>,
              1, 1, 150, 130, TRUE, {}, FALSE,
              {"sizes", "color"}, {"8", "9"}, {"black", "white"})
P2 == Product(2, <<"N","i","k","e"," ","R","u","n">>, <<"r","o","a","d">>,
              1, 1, 150, NONE, FALSE, {"is_featured"}, TRUE,
              {"sizes", "color"}, {"9"}, {"white"})
P3 == Product(3, <<"P","u","m","a"," ","R","S">>, <<"r","e","t","r","o">>,
              2, 2, 80, NONE, FALSE, {"is_featured"}, FALSE,
              {"color"}, {}, {"black"})
P4 == Product(4, <<"P","u","m","a"," ","A","i","r">>, <<"a","i","r"," ","s","o","l","e">>,
              2, 1, 120, 95, TRUE, {}, FALSE,
              {"sizes"}, {"8"}, {})
P5 == Product(5, <<"P","u","m","a"," ","M","a","x">>, <<"m","a","x">>,
              2, 2, 120, NONE, FALSE, {}, FALSE,
              {"sizes", "color"}, {"8", "9"}, {"black"})

P6 == Product(6, <<"P","u","m","a"," ","M","a","x"," ","S">>, <<"m","a","x">>,
              2, 2, 120, NONE, FALSE, {}, FALSE,
              {"sizes", "color"}, {"8", "9"}, {"black"})

\* the snapshot loaded at start-up
Catalogs == { <<P1, P2, P3, P4, P5>> }

\* a snapshot in which two products with the same featured flag and the same
\* effective price are stored in descending id order (ids are uuid4 values,
\* unrelated to the position in the list)
TieCatalogs == { <<P1, P2, P3, P4, P6, P5>> }

ProductIds == {1, 2, 3, 4, 5}

(***************************************************************************)
(* The ANN collection: for a query text it ranks the indexed products by   *)
(* distance (in thousandths).  The ranking is the provider's; the adapter  *)
(* only reads it.  An empty collection is one that was never indexed.      *)
(***************************************************************************)
IndexChoices ==
    { << [id |-> 1, distance |-> 100], [id |-> 2, distance |-> 300],
         [id |-> 4, distance |-> 455], [id |-> 3, distance |-> 500],
         [id |-> 5, distance |-> 700] >>,
      << >> }

\* round(1 - distance, 2), in hundredths; Python rounds half to even
RoundScore(d) ==
    LET x == 1000 - d
        q == x \div 10
        r == x % 10
    IN  IF r < 5 THEN q
        ELSE IF r > 5 THEN q + 1
        ELSE IF q % 2 = 0 THEN q ELSE q + 1

(***************************************************************************)
(* Dict helpers.                                                           *)
(***************************************************************************)
\* p["sale_price"] if p["is_on_sale"] and p["sale_price"] else p["price"]
EffectivePrice(p) ==
    IF p.is_on_sale /\ p.sale_price # NONE /\ p.sale_price # 0
    THEN p.sale_price ELSE p.price

\* p.get("is_featured", False)
GetIsFeatured(p) == IF "is_featured" \in p.keys THEN p.is_featured ELSE FALSE

HasBrand(bid) == \E i \in 1..Len(Brands) : Brands[i].id = bid
HasCategory(cid) == \E i \in 1..Len(Categories) : Categories[i].id = cid
BrandName(bid) == Brands[CHOOSE i \in 1..Len(Brands) : Brands[i].id = bid].name
CategoryName(cid) ==
    Categories[CHOOSE i \in 1..Len(Categories) : Categories[i].id = cid].name

Ids(seq) == [i \in 1..Len(seq) |-> seq[i].id]
IdSet(seq) == { seq[i].id : i \in 1..Len(seq) }

\* the copy semantic_search makes of a product: relevance score, brand and
\* category names added to the copy only
WithNames(p) ==
    [p EXCEPT !.keys = @ \cup (IF HasBrand(p.brand_id) THEN {"brand_name"} ELSE {})
                         \cup (IF HasCategory(p.category_id) THEN {"category_name"} ELSE {})]

WithScore(p, d) ==
    [p EXCEPT !.keys = @ \cup {"relevance_score"}, !.relevance_score = RoundScore(d)]

(***************************************************************************)
(* DatabaseConnection.execute_query for the product SELECTs.  `fails` is   *)
(* the store being unreachable (the call raises).  The in-memory           *)
(* implementation returns the IN_MEMORY_DB["products"] list itself; of the *)
(* query parameters only non-blank strings narrow it.                      *)
(***************************************************************************)
execute_query(db, strArgs, fails) ==
    IF fails THEN [exc |-> TRUE, rows |-> <<>>]
    ELSE [exc |-> FALSE,
          rows |-> SelectBy(db, [i \in 1..Len(db) |->
                      \A a \in strArgs :
                          \/ StrContains(StrLower(a), StrLower(db[i].name))
                          \/ StrContains(StrLower(a), StrLower(db[i].description))])]

\* the size / colour post-processing of SQL rows: a row without the
\* attribute passes
PostProcess(rows, size, color) ==
    IF size = NoneStr /\ color = NoneStr THEN rows
    ELSE SelectBy(rows, [i \in 1..Len(rows) |->
            /\ ~(size # NoneStr /\ "sizes" \in rows[i].attributes.akeys
                   /\ size \notin rows[i].attributes.sizes)
            /\ ~(color # NoneStr /\ "color" \in rows[i].attributes.akeys
                   /\ color \notin rows[i].attributes.color)])

(***************************************************************************)
(* VectorDatabase.semantic_search.  filters = [brand, category, price_min, *)
(* price_max]; an absent name is <<>>, an absent price NONE.  `fails` is   *)
(* collection.query raising.                                               *)
(***************************************************************************)
NoVectorFilters == [brand |-> <<>>, category |-> <<>>, price_min |-> NONE, price_max |-> NONE]

HasDb(db, id) == \E i \in 1..Len(db) : db[i].id = id
ById(db, id) == db[CHOOSE i \in 1..Len(db) : db[i].id = id]

\* does the indexed entry's metadata satisfy the where clause (the first of
\* brand / category only)
WhereMatches(p, filters) ==
    IF filters.brand # <<>>
    THEN HasBrand(p.brand_id) /\ BrandName(p.brand_id) = filters.brand
    ELSE IF filters.category # <<>>
    THEN HasCategory(p.category_id) /\ CategoryName(p.category_id) = filters.category
    ELSE TRUE

\* collection.query(n_results, where): the n nearest indexed entries whose
\* metadata satisfies the where clause
CollectionQuery(db, idx, n, filters) ==
    Slice(SelectBy(idx, [i \in 1..Len(idx) |->
              HasDb(db, idx[i].id) /\ WhereMatches(ById(db, idx[i].id), filters)]),
          0, n)

MapWithNames(seq) == [i \in 1..Len(seq) |-> WithNames(seq[i])]

\* except branch: products whose name contains any query term
BasicSearch(db, terms, limit) ==
    Slice(MapWithNames(SelectBy(db, [i \in 1..Len(db) |->
              \E t \in terms : StrContains(t, StrLower(db[i].name))])), 0, limit)

\* "Get full product details for each result"
HitProducts(db, hits) ==
    [i \in 1..Len(hits) |->
        WithNames(WithScore(ById(db, hits[i].id), hits[i].distance))]

PriceMinFilter(list, price_min) ==
    IF price_min # NONE
    THEN SelectBy(list, [i \in 1..Len(list) |-> EffectivePrice(list[i]) >= price_min])
    ELSE list

PriceMaxFilter(list, price_max) ==
    IF price_max # NONE
    THEN SelectBy(list, [i \in 1..Len(list) |-> EffectivePrice(list[i]) <= price_max])
    ELSE list

\* "Only update products if we have results after filtering"
KeepIfAny(filtered_products, list) ==
    IF filtered_products # <<>> THEN filtered_products ELSE list

PostFilter(list, filters) ==
    IF filters = NoVectorFilters THEN list
    ELSE KeepIfAny(PriceMaxFilter(PriceMinFilter(list, filters.price_min),
                                  filters.price_max), list)

\* n_results=min(limit, 20)
n_results(limit) == Min(limit, 20)

semantic_search(db, idx, query, limit, filters, fails) ==
    IF fails
    THEN BasicSearch(db, StrSplit(StrLower(query)), limit)
    ELSE PostFilter(HitProducts(db, CollectionQuery(db, idx, n_results(limit), filters)),
                    filters)

(***************************************************************************)
(* ProductsRepository._filter_candidates                                   *)
(***************************************************************************)
StrictMatch(p, price_min, price_max, size, color) ==
    /\ price_min # NONE => EffectivePrice(p) >= price_min
    /\ price_max # NONE => EffectivePrice(p) <= price_max
    /\ size # NoneStr => ("sizes" \in p.attributes.akeys /\ size \in p.attributes.sizes)
    /\ color # NoneStr => ("color" \in p.attributes.akeys /\ color \in p.attributes.color)

\* a filtered list and its page
Paginate(results, limit, offset) ==
    [merged |-> results, out |-> Slice(results, offset, offset + limit)]

\* variant: the size filter is forgotten
_filter_candidates_no_size(candidates, price_min, price_max, size, color, limit, offset) ==
    Paginate(SelectBy(candidates, [i \in 1..Len(candidates) |->
                 StrictMatch(candidates[i], price_min, price_max, NoneStr, color)]),
             limit, offset)

_filter_candidates(candidates, price_min, price_max, size, color, limit, offset) ==
    Paginate(SelectBy(candidates, [i \in 1..Len(candidates) |->
                 StrictMatch(candidates[i], price_min, price_max, size, color)]),
             limit, offset)

(***************************************************************************)
(* ProductsRepository._fallback_search.  A request's filters are           *)
(* f = [category_id, brand_id, price_min, price_max, size, color].         *)
(* The products of the returned page are the dicts of the snapshot, so the *)
(* enrichment writes into IN_MEMORY_DB: `db` is the snapshot afterwards.   *)
(***************************************************************************)
sShoes == <<"s","h","o","e","s">>

EnrichKeys == {"brand_name", "category_name", "avg_rating", "review_count"}

Enrich(p) == [p EXCEPT !.keys = @ \cup EnrichKeys]

BrandMatches(query_lower) ==
    { Brands[i].id : i \in { k \in 1..Len(Brands) :
                              StrContains(StrLower(Brands[k].name), query_lower) } }

CategoryMatches(query_lower) ==
    { Categories[i].id : i \in { k \in 1..Len(Categories) :
                              StrContains(StrLower(Categories[k].name), query_lower) } }

\* variant: only the substring match on name and description
TextMatchLower_substring_only(db, query_lower, brand_matches, category_matches, shoes) ==
    SelectBy(db, [i \in 1..Len(db) |->
        \/ StrContains(query_lower, StrLower(db[i].name))
        \/ StrContains(query_lower, StrLower(db[i].description))])

TextMatchLower(db, query_lower, brand_matches, category_matches, shoes) ==
    IF brand_matches # {} /\ shoes
    THEN SelectBy(db, [i \in 1..Len(db) |-> db[i].brand_id \in brand_matches])
    ELSE IF category_matches # {} /\ shoes
    THEN SelectBy(db, [i \in 1..Len(db) |-> db[i].category_id \in category_matches])
    ELSE SelectBy(db, [i \in 1..Len(db) |->
            \/ StrContains(query_lower, StrLower(db[i].name))
            \/ StrContains(query_lower, StrLower(db[i].description))])

TextMatch(db, query) ==
    TextMatchLower(db, StrLower(query), BrandMatches(StrLower(query)),
                   CategoryMatches(StrLower(query)),
                   StrContains(sShoes, StrLower(query)))

\* "Apply other filters"
OtherFilters(list, f) ==
    SelectBy(list, [i \in 1..Len(list) |->
        /\ f.category_id # NONE => list[i].category_id = f.category_id
        /\ f.brand_id # NONE => list[i].brand_id = f.brand_id
        /\ StrictMatch(list[i], f.price_min, f.price_max, f.size, f.color)])

\* the sort key (not is_featured, effective price) as one number
DefaultKey(p) == (IF GetIsFeatured(p) THEN 0 ELSE 1) * 100000 + EffectivePrice(p)

DefaultSort(list) == StableSort(list, [i \in 1..Len(list) |-> DefaultKey(list[i])])

\* "Enrich with brand and category names": writes into the page's dicts
EnrichPage(db, sorted, page) ==
    [merged |-> sorted,
     out |-> [i \in 1..Len(page) |-> Enrich(page[i])],
     db |-> [i \in 1..Len(db) |->
               IF db[i].id \in IdSet(page) THEN Enrich(db[i]) ELSE db[i]]]

FallbackPage(db, sorted, limit, offset) ==
    EnrichPage(db, sorted, Slice(sorted, offset, offset + limit))

_fallback_search(db, query, f, limit, offset) ==
    FallbackPage(db,
                 DefaultSort(OtherFilters(IF query # <<>> THEN TextMatch(db, query)
                                          ELSE db, f)),
                 limit, offset)

(***************************************************************************)
(* ProductsRepository.hybrid_search and search_products.                   *)
(* env = [indexFails, storeFails, vdbInitFails]: collection.query raises,  *)
(* db.execute_query raises, the VectorDatabase constructor raises.         *)
(* An outcome records the returned list (out), the list before pagination  *)
(* (merged), the semantic candidates, the snapshot afterwards (db), the    *)
(* tiers called in order (calls), the branch taken (path) and whether the  *)
(* returned list is the IN_MEMORY_DB["products"] list object (alias).      *)
(***************************************************************************)
Outcome(exc, out, merged, candidates, db, calls, path, alias) ==
    [exc |-> exc, out |-> out, merged |-> merged, candidates |-> candidates,
     db |-> db, calls |-> calls, path |-> path, alias |-> alias,
     n_results |-> NONE]

\* the outcome of a request that called vector_db.semantic_search with this
\* limit: n_results is what collection.query was asked for
Queried(o, limit) == [o EXCEPT !.n_results = n_results(limit)]

\* the category / brand names pushed into the index query
VectorFilters(f) ==
    [brand |-> IF f.brand_id # NONE /\ HasBrand(f.brand_id)
               THEN BrandName(f.brand_id) ELSE <<>>,
     category |-> IF f.category_id # NONE /\ HasCategory(f.category_id)
                  THEN CategoryName(f.category_id) ELSE <<>>,
     price_min |-> NONE, price_max |-> NONE]

\* the first SQL row with this id
RowOf(sql_results, id) ==
    sql_results[CHOOSE k \in 1..Len(sql_results) :
                   /\ sql_results[k].id = id
                   /\ \A m \in 1..(k - 1) : sql_results[m].id # id]

\* combined = sql_result.copy() with the candidate's relevance_score
Combine(row, candidate) ==
    IF "relevance_score" \in candidate.keys
    THEN [row EXCEPT !.keys = @ \cup {"relevance_score"},
                     !.relevance_score = candidate.relevance_score]
    ELSE row

CombineAll(hit, sql_results) ==
    [i \in 1..Len(hit) |-> Combine(RowOf(sql_results, hit[i].id), hit[i])]

\* variant: the rows keep the order of the SQL result
CombineRows(rows, candidates) ==
    [i \in 1..Len(rows) |-> Combine(rows[i], RowOf(candidates, rows[i].id))]

MergeByRank_sql_order(candidates, sql_results) ==
    CombineRows(SelectBy(sql_results, [k \in 1..Len(sql_results) |->
                    sql_results[k].id \in IdSet(candidates)]),
                candidates)

\* "Reorder SQL results based on vector search relevance"
MergeByRank(candidates, sql_results) ==
    CombineAll(SelectBy(candidates, [i \in 1..Len(candidates) |->
                   candidates[i].id \in IdSet(sql_results)]),
               sql_results)

NeedsSql(f) ==
    f.price_min # NONE \/ f.price_max # NONE \/ f.size # NoneStr \/ f.color # NoneStr

FallbackOutcome(fb, candidates, calls, path) ==
    Outcome(FALSE, fb.out, fb.merged, candidates, fb.db, calls, path, FALSE)

HybridFallback(db, query, f, limit, offset, calls) ==
    FallbackOutcome(_fallback_search(db, query, f, limit, offset), <<>>,
                    calls \o <<"fallback">>, "fallback")

\* the except branch: in-memory filtering of the vector results
FilterOutcome(db, candidates, fc) ==
    Outcome(FALSE, fc.out, fc.merged, candidates, db, <<"index", "store">>,
            "filter_candidates", FALSE)

\* "Return results with pagination"
MergeOutcome(db, candidates, ordered_results, limit, offset) ==
    Outcome(FALSE, Slice(ordered_results, offset, offset + limit), ordered_results,
            candidates, db, <<"index", "store">>, "sql_merge", FALSE)

\* variant: an empty merge falls through to the search over the whole snapshot
SqlFilter_empty_falls_back(db, f, limit, offset, candidates, q) ==
    IF q.exc
    THEN FilterOutcome(db, candidates,
             _filter_candidates(candidates, f.price_min, f.price_max, f.size,
                                f.color, limit, offset))
    ELSE IF MergeByRank(candidates, PostProcess(q.rows, f.size, f.color)) = <<>>
    THEN HybridFallback(db, <<>>, f, limit, offset, <<"index", "store">>)
    ELSE MergeOutcome(db, candidates,
             MergeByRank(candidates, PostProcess(q.rows, f.size, f.color)),
             limit, offset)

\* Step 2: precise SQL filtering of the candidates; q is what
\* db.execute_query did
SqlFilter(db, f, limit, offset, candidates, q) ==
    IF q.exc
    THEN FilterOutcome(db, candidates,
             _filter_candidates(candidates, f.price_min, f.price_max, f.size,
                                f.color, limit, offset))
    ELSE MergeOutcome(db, candidates,
             MergeByRank(candidates, PostProcess(q.rows, f.size, f.color)),
             limit, offset)

WithCandidates(db, query, f, limit, offset, env, candidates) ==
    IF candidates = <<>>
    THEN HybridFallback(db, query, f, limit, offset, <<"index">>)
    ELSE IF NeedsSql(f)
    THEN SqlFilter(db, f, limit, offset, candidates,
                   execute_query(db, {}, env.storeFails))
    ELSE Outcome(FALSE, Slice(candidates, offset, offset + limit),
                 candidates, candidates, db, <<"index">>, "candidates", FALSE)

hybrid_search(db, idx, query, f, limit, offset, use_semantic_search, env) ==
    IF ~use_semantic_search
    THEN HybridFallback(db, query, f, limit, offset, <<>>)
    ELSE IF env.vdbInitFails
    THEN Outcome(TRUE, <<>>, <<>>, <<>>, db, <<>>, "exception", FALSE)
    ELSE Queried(WithCandidates(db, query, f, limit, offset, env,
                     semantic_search(db, idx, query, Min(limit * 3, 50),
                                     VectorFilters(f), env.indexFails)),
                 Min(limit * 3, 50))

\* variant: no outer try/except, the exception propagates
CatchAll_propagates(h) == h

\* the outer try/except of search_products: log and return []
CatchAll(h) ==
    IF h.exc
    THEN Outcome(FALSE, <<>>, <<>>, <<>>, h.db, h.calls, "exception", FALSE)
    ELSE h

StoreOutcome(db, f, results) ==
    Outcome(FALSE, results, results, <<>>, db, <<"store">>, "store",
            f.size = NoneStr /\ f.color = NoneStr)

\* variant: the fallback after a failed SQL query forgets the offset
StoreSearch_offset0(db, f, limit, offset, q) ==
    IF q.exc
    THEN FallbackOutcome(_fallback_search(db, <<>>, f, limit, 0), <<>>,
                         <<"store", "fallback">>, "store_fallback")
    ELSE StoreOutcome(db, f, PostProcess(q.rows, f.size, f.color))

\* the standard search (no query); q is what db.execute_query did
StoreSearch(db, f, limit, offset, q) ==
    IF q.exc
    THEN FallbackOutcome(_fallback_search(db, <<>>, f, limit, offset), <<>>,
                         <<"store", "fallback">>, "store_fallback")
    ELSE StoreOutcome(db, f, PostProcess(q.rows, f.size, f.color))

search_products(db, idx, query, f, limit, offset, use_semantic_search, env) ==
    IF query # <<>>
    THEN CatchAll(hybrid_search(db, idx, query, f, limit, offset,
                                use_semantic_search, env))
    ELSE CatchAll(StoreSearch(db, f, limit, offset,
                              execute_query(db, {}, env.storeFails)))

(***************************************************************************)
(* ProductsAgent.search_products.  params is what _extract_search_         *)
(* parameters returned: brand and category names (<<>> when absent),       *)
(* price_min, price_max, size, color, sort and limit (10 when absent).     *)
(***************************************************************************)
\* the id of the first entry whose lower-cased name equals the lower-cased
\* parameter, None when there is none
ResolveName(table, lname) ==
    IF \E i \in 1..Len(table) : StrLower(table[i].name) = lname
    THEN table[CHOOSE i \in 1..Len(table) :
            /\ StrLower(table[i].name) = lname
            /\ \A k \in 1..(i - 1) : StrLower(table[k].name) # lname].id
    ELSE NONE

ResolveCategory(name) ==
    IF name # <<>> THEN ResolveName(Categories, StrLower(name)) ELSE NONE

ResolveBrand(name) ==
    IF name # <<>> THEN ResolveName(Brands, StrLower(name)) ELSE NONE

AgentFilters(params) ==
    [category_id |-> ResolveCategory(params.category),
     brand_id |-> ResolveBrand(params.brand),
     price_min |-> params.price_min, price_max |-> params.price_max,
     size |-> params.size, color |-> params.color]

\* products.sort(key=...) for the requested order
SortRequested(list, sort) ==
    IF sort = "price-desc"
    THEN StableSort(list, [i \in 1..Len(list) |-> 0 - EffectivePrice(list[i])])
    ELSE IF sort = "price-asc"
    THEN StableSort(list, [i \in 1..Len(list) |-> EffectivePrice(list[i])])
    ELSE list

\* the sort is in place: it reorders IN_MEMORY_DB["products"] when the
\* returned list is that list
SortedOutcome(r, sorted) ==
    [r EXCEPT !.out = sorted, !.db = IF r.alias THEN sorted ELSE @]

AgentSort(r, sort) == SortedOutcome(r, SortRequested(r.out, sort))

\* "If semantic search returned no results or was skipped, fall back to
\* standard search"
AgentChoose(db, found, std, calls0) ==
    IF found # <<>>
    THEN Outcome(FALSE, found, found, found, db, calls0, "semantic", FALSE)
    ELSE [std EXCEPT !.calls = calls0 \o @]

\* semantic_search_products(query=query, filters=..., limit=10)
AgentSemanticLimit == 10

\* _is_vector_search_available probes the index with "test query" and then
\* semantic_search_products queries it: two index calls, neither raises
AgentSemantic(db, idx, query, params, env) ==
    IF query # <<>>
    THEN semantic_search(db, idx, query, AgentSemanticLimit,
             [brand |-> params.brand, category |-> params.category,
              price_min |-> NONE, price_max |-> NONE], env.indexFails)
    ELSE <<>>

\* the index is queried only for a request with query text
AgentQueried(o, query) ==
    IF query # <<>> THEN Queried(o, AgentSemanticLimit) ELSE o

agent_search_products(db, idx, query, params, env) ==
    IF env.vdbInitFails
    THEN Outcome(TRUE, <<>>, <<>>, <<>>, db, <<>>, "exception", FALSE)
    ELSE AgentQueried(
            AgentSort(
                AgentChoose(db, AgentSemantic(db, idx, query, params, env),
                    search_products(db, idx, query, AgentFilters(params),
                                    params.limit, 0, FALSE, env),
                    IF query # <<>> THEN <<"index", "index">> ELSE <<>>),
                params.sort),
            query)

(***************************************************************************)
(* Requests.                                                               *)
(***************************************************************************)
sAir == <<"a","i","r">>
sPumaShoes == <<"p","u","m","a"," ","s","h","o","e","s">>
sZzz == <<"z","z","z">>
sCasualShoes == sCasual \o <<" ">> \o sShoes

\* <<>> is a request without query text
Queries == { <<>>, sAir, sPumaShoes, sCasualShoes }

Filters(c, b, pmin, pmax, size, color) ==
    [category_id |-> c, brand_id |-> b, price_min |-> pmin, price_max |-> pmax,
     size |-> size, color |-> color]

NoFilters == Filters(NONE, NONE, NONE, NONE, NoneStr, NoneStr)

FilterSets ==
    { NoFilters,
      Filters(1, NONE, NONE, NONE, NoneStr, NoneStr),
      Filters(NONE, 2, NONE, NONE, NoneStr, NoneStr),
      Filters(2, 2, NONE, NONE, NoneStr, NoneStr),
      Filters(NONE, NONE, NONE, 140, NoneStr, NoneStr),
      Filters(NONE, NONE, 100, NONE, NoneStr, NoneStr),
      Filters(NONE, NONE, NONE, NONE, "8", NoneStr),
      Filters(NONE, NONE, NONE, NONE, NoneStr, "black"),
      Filters(NONE, NONE, NONE, 140, "8", NoneStr),
      Filters(NONE, NONE, NONE, NONE, "10", NoneStr) }

Params(brand, category, pmax, size, sort, limit) ==
    [brand |-> brand, category |-> category, price_min |-> NONE, price_max |-> pmax,
     size |-> size, color |-> NoneStr, sort |-> sort, limit |-> limit]

Sorts == {"none", "price-desc", "price-asc"}

\* params.get("limit", 10)
DefaultLimit == 10

ParamSets ==
    { Params(x[1], x[2], x[3], x[4], srt, lim) :
        x \in { << <<>>, <<>>, NONE, NoneStr >>,
                << sPuma, <<>>, NONE, NoneStr >>,
                << sZzz, <<>>, NONE, NoneStr >>,
                << <<>>, sCasual, NONE, NoneStr >>,
                << <<>>, <<>>, 140, NoneStr >>,
                << <<>>, <<>>, NONE, "8" >> },
        srt \in Sorts, lim \in {1, DefaultLimit} }

Env(i, s, v) == [indexFails |-> i, storeFails |-> s, vdbInitFails |-> v]

Envs == { Env(i, s, FALSE) : i \in BOOLEAN, s \in BOOLEAN } \cup { Env(FALSE, FALSE, TRUE) }

(***************************************************************************)
(* Inventory, availability and the other store reads.                      *)
(***************************************************************************)
InventoryRecord(product_id, size, color, quantity) ==
    [product_id |-> product_id, size |-> size, color |-> color,
     quantity |-> quantity]

\* IN_MEMORY_DB["inventory"]: the stock records loaded at start-up, one per
\* (product_id, size, color)
Inventory ==
    { InventoryRecord(1, "8", "black", 0),
      InventoryRecord(3, "8", "black", 4),
      InventoryRecord(5, "8", "black", 2) }

\* the quantity check_inventory answers with
MockQuantity == 5

\* the quantity below which the answer says "only N left"
LowStock == 5

\* ProductsRepository.get_product_by_id: a copy with the names, <<>> is None
get_product_by_id(db, product_id) ==
    IF HasDb(db, product_id) THEN << WithNames(ById(db, product_id)) >> ELSE <<>>

\* ProductsRepository.check_inventory: <<>> is None; raises is an exception
\* raised inside its try block
check_inventory(db, product_id, size, color, raises) ==
    IF raises \/ ~HasDb(db, product_id) THEN <<>>
    ELSE IF \/ "sizes" \notin ById(db, product_id).attributes.akeys
            \/ size \notin ById(db, product_id).attributes.sizes THEN <<>>
    ELSE IF \/ "color" \notin ById(db, product_id).attributes.akeys
            \/ color \notin ById(db, product_id).attributes.color THEN <<>>
    ELSE << InventoryRecord(product_id, size, color, MockQuantity) >>

\* a returned dict: its keys, the values the properties read, and the
\* methods that ran to produce it
Ret(keys, inventory, available, response, invoked) ==
    [keys |-> keys, inventory |-> inventory, available |-> available,
     response |-> response, invoked |-> invoked]

NoRet == Ret({}, <<>>, FALSE, "none", {})

\* ProductsAgent._format_availability_response: which sentence is chosen
_format_availability_response(inventory) ==
    IF inventory = <<>> THEN "not available"
    ELSE IF inventory[1].quantity <= 0 THEN "out of stock"
    ELSE IF inventory[1].quantity < LowStock THEN "only N left"
    ELSE "available"

AvailabilityResult(inventory) ==
    Ret({"product", "inventory", "available", "response"}, inventory,
        inventory # <<>> /\ inventory[1].quantity > 0,
        _format_availability_response(inventory), {"check_product_availability"})

\* ProductsAgent.check_product_availability
check_product_availability(db, product_id, size, color, raises) ==
    IF get_product_by_id(db, product_id) = <<>>
    THEN Ret({"available", "response"}, <<>>, FALSE, "not found",
             {"check_product_availability"})
    ELSE AvailabilityResult(check_inventory(db, product_id, size, color, raises))

\* DatabaseConnection.execute_query as written: every table it knows, the
\* unsupported-pattern branch, and its except branch (error: the evaluation
\* inside the try block raised), which logs and returns []
execute_query_in_memory(db, table, strArgs, error) ==
    IF error THEN [exc |-> FALSE, rows |-> <<>>]
    ELSE IF table = "products" THEN execute_query(db, strArgs, FALSE)
    ELSE IF table = "brands" THEN [exc |-> FALSE, rows |-> Brands]
    ELSE IF table = "categories" THEN [exc |-> FALSE, rows |-> Categories]
    ELSE [exc |-> FALSE, rows |-> <<>>]

\* ProductsRepository.get_product_inventory: raises is db.execute_query
\* raising; the except branch returns []
get_product_inventory(db, product_id, raises) ==
    IF raises THEN [exc |-> FALSE, rows |-> <<>>]
    ELSE execute_query_in_memory(db, "inventory", {}, FALSE)

(***************************************************************************)
(* ProductsAgent's other methods, ProductsTool.execute and the executor    *)
(* registered by ProductsToolIntegration.register_with_app.                *)
(***************************************************************************)
\* what a tool or agent method does: the search outcome underneath (o) and
\* the dict it returns (ret)
ToolOut(o, ret) == [o |-> o, ret |-> ret]

\* no search ran
Untouched(db, exc) == Outcome(exc, <<>>, <<>>, <<>>, db, <<>>, "tool", FALSE)

\* {"error": ..., "response": ...}
ToolError(db, invoked) ==
    ToolOut(Untouched(db, FALSE),
            Ret({"error", "response"}, <<>>, FALSE, "error", invoked))

\* TypeError: **kwargs does not fit the parameters of the method called
ToolRaise(db) == ToolOut(Untouched(db, TRUE), NoRet)

FromSearch(o, keys, invoked) ==
    ToolOut(o, Ret(keys, <<>>, FALSE, "results", invoked))

PopularLimit == 5
CategoryLimit == 10
NoCategoryLimit == 5

\* ProductsAgent.get_popular_products
get_popular_products(db, idx, env) ==
    FromSearch(search_products(db, idx, <<>>, NoFilters, PopularLimit, 0, TRUE, env),
               {"results", "response"}, {"get_popular_products"})

\* ProductsAgent.get_product_details
get_product_details(db, product_id) ==
    ToolOut(Untouched(db, FALSE),
            IF get_product_by_id(db, product_id) = <<>>
            THEN Ret({"error", "response"}, <<>>, FALSE, "not found",
                     {"get_product_details"})
            ELSE Ret({"details", "response"}, <<>>, FALSE, "details",
                     {"get_product_details"}))

\* str.strip() of a string without inner line breaks
RECURSIVE Strip(_)
Strip(s) ==
    IF s # <<>> /\ s[1] = " " THEN Strip(Tail(s))
    ELSE IF s # <<>> /\ s[Len(s)] = " " THEN Strip(SubSeq(s, 1, Len(s) - 1))
    ELSE s

sAthletic == <<"a","t","h","l","e","t","i","c">>

\* common_categories of get_category_products, in the dict's order
common_categories ==
    << [term |-> StrLower(sRunning), id |-> 1], [term |-> StrLower(sCasual), id |-> 2],
       [term |-> sAthletic, id |-> 3], [term |-> <<"k","i","d","s">>, id |-> 4],
       [term |-> <<"f","o","r","m","a","l">>, id |-> 5] >>

\* the indexes of the categories equal to, or overlapping with, the name
ExactCategory(n) ==
    { i \in 1..Len(Categories) : StrLower(Categories[i].name) = n }

PartialCategory(n) ==
    { i \in 1..Len(Categories) :
        \/ StrContains(n, StrLower(Categories[i].name))
        \/ StrContains(StrLower(Categories[i].name), n) }

\* the category id get_category_products settles on: the first exact match,
\* else the last partial match, else the first common term; NONE if none
CategoryIdFor(n) ==
    IF ExactCategory(n) # {}
    THEN Categories[CHOOSE i \in ExactCategory(n) :
                        \A j \in ExactCategory(n) : i <= j].id
    ELSE IF PartialCategory(n) # {}
    THEN Categories[CHOOSE i \in PartialCategory(n) :
                        \A j \in PartialCategory(n) : i >= j].id
    ELSE IF \E k \in 1..Len(common_categories) : StrContains(common_categories[k].term, n)
    THEN common_categories[CHOOSE k \in 1..Len(common_categories) :
            /\ StrContains(common_categories[k].term, n)
            /\ \A m \in 1..(k - 1) : ~StrContains(common_categories[m].term, n)].id
    ELSE NONE

CategorySearch(db, idx, category_id, env) ==
    IF category_id # NONE
    THEN search_products(db, idx, <<>>,
                         Filters(category_id, NONE, NONE, NONE, NoneStr, NoneStr),
                         CategoryLimit, 0, TRUE, env)
    ELSE Untouched(db, FALSE)

\* "if not products": search again without the category
CategoryFallback(first, idx, env) ==
    IF first.out # <<>> THEN first
    ELSE [search_products(first.db, idx, <<>>, NoFilters, NoCategoryLimit, 0, TRUE, env)
            EXCEPT !.calls = first.calls \o @]

\* ProductsAgent.get_category_products
get_category_products(db, idx, category_name, env) ==
    FromSearch(CategoryFallback(
                   CategorySearch(db, idx, CategoryIdFor(Strip(StrLower(category_name))), env),
                   idx, env),
               {"products", "response"}, {"get_category_products"})

\* the id of the first product whose name occurs in the query, NONE if none
ExtractProduct(db, query) ==
    IF \E i \in 1..Len(db) : StrContains(StrLower(db[i].name), StrLower(query))
    THEN db[CHOOSE i \in 1..Len(db) :
            /\ StrContains(StrLower(db[i].name), StrLower(query))
            /\ \A k \in 1..(i - 1) :
                  ~StrContains(StrLower(db[k].name), StrLower(query))].id
    ELSE NONE

\* the product the availability action is about: the product_id given, else
\* the one named in the query (execute's first step and _check_availability's)
AvailabilityProductId(db, kw) ==
    IF "product_id" \in kw.keys /\ kw.product_id # NONE THEN kw.product_id
    ELSE IF "query" \in kw.keys /\ kw.query # <<>> THEN ExtractProduct(db, kw.query)
    ELSE NONE

\* ProductsTool._check_availability; a product_id that is no id of the
\* snapshot is looked up as a name and, for the ids asked here, not found
_check_availability(db, kw, product_id, raises) ==
    IF product_id = NONE \/ ~HasDb(db, product_id) THEN ToolError(db, {})
    ELSE IF kw.size = NoneStr \/ kw.color = NoneStr
    THEN ToolOut(Untouched(db, FALSE),
                 Ret({"product", "response"}, <<>>, FALSE, "sizes and colors",
                     {"get_product_details"}))
    ELSE ToolOut(Untouched(db, FALSE),
                 [check_product_availability(db, product_id, kw.size, kw.color, raises)
                    EXCEPT !.invoked = @ \cup {"get_product_details"}])

\* ProductsTool._search_products
_search_products(db, idx, kw, params, env) ==
    IF kw.query = <<>> THEN ToolError(db, {})
    ELSE FromSearch(agent_search_products(db, idx, kw.query, params, env),
                    {"results", "response"}, {"search_products"})

\* ProductsTool._get_product_details
_get_product_details(db, idx, kw, env) ==
    IF "product_id" \notin kw.keys \/ kw.product_id = NONE
    THEN get_popular_products(db, idx, env)
    ELSE get_product_details(db, kw.product_id)

\* ProductsTool._get_category_products
_get_category_products(db, idx, kw, env) ==
    IF kw.category_name = <<>> THEN ToolError(db, {})
    ELSE get_category_products(db, idx, kw.category_name, env)

\* one call of the tool: the action, the keyword arguments, what the
\* parameter extraction made of the query, and what fails underneath
Call(action, kw, params, env, raises) ==
    [action |-> action, kw |-> kw, params |-> params, env |-> env,
     raises |-> raises]

\* the routing of execute; each method is called with **kwargs, which must
\* fit its parameters
Route(db, idx, c) ==
    IF c.action = "search"
    THEN IF c.kw.keys = {"query"}
         THEN _search_products(db, idx, c.kw, c.params, c.env)
         ELSE ToolRaise(db)
    ELSE IF c.action = "details"
    THEN IF c.kw.keys \subseteq {"product_id"}
         THEN _get_product_details(db, idx, c.kw, c.env)
         ELSE ToolRaise(db)
    ELSE IF c.action = "availability"
    THEN IF c.kw.keys \subseteq {"query", "product_id", "size", "color"}
         THEN _check_availability(db, c.kw, AvailabilityProductId(db, c.kw), c.raises)
         ELSE ToolRaise(db)
    ELSE IF c.action = "category"
    THEN IF c.kw.keys = {"category_name"}
         THEN _get_category_products(db, idx, c.kw, c.env)
         ELSE ToolRaise(db)
    ELSE IF c.action = "popular" THEN get_popular_products(db, idx, c.env)
    ELSE ToolError(db, {})

ToolCatch_propagates(t) == t

\* the try/except around execute's body: an error dict instead of the
\* exception
ToolCatch(t) ==
    IF t.o.exc
    THEN ToolOut([t.o EXCEPT !.exc = FALSE, !.out = <<>>, !.merged = <<>>,
                             !.candidates = <<>>],
                 Ret({"error", "response"}, <<>>, FALSE, "error", t.ret.invoked))
    ELSE t

\* ProductsTool.execute(action, **kwargs)
execute(db, idx, c) ==
    [ToolCatch(Route(db, idx, c))
        EXCEPT !.ret.invoked = @ \cup {"execute"}]

\* the executor registered with the application: execute(action, **params)
\* is called with params still holding "action", so the call raises
\* TypeError (two values for the parameter action) before execute runs
tool_executor(db, idx, c) ==
    IF c.action = "none" THEN ToolError(db, {})
    ELSE ToolRaise(db)

(***************************************************************************)
(* State.                                                                  *)
(***************************************************************************)
VARIABLES
    products,     \* IN_MEMORY_DB["products"]
    index,        \* the ANN collection's ranking
    _vector_db,   \* the module-level VectorDatabase handle: "None" or "ready"
    pc,           \* "idle", or "done" when a call has returned to its caller
    op,           \* the operation of the last call
    req,          \* its arguments
    res,          \* its outcome
    served        \* the number of requests handled so far

vars == <<products, index, _vector_db, pc, op, req, res, served>>

\* keyword arguments: the keys that are present and their values
Kwargs(keys, query, product_id, size, color, category_name) ==
    [keys |-> keys, query |-> query, product_id |-> product_id, size |-> size,
     color |-> color, category_name |-> category_name]

NoKwargs == Kwargs({}, <<>>, NONE, NoneStr, NoneStr, <<>>)

NoReq == [query |-> <<>>, f |-> NoFilters, limit |-> 0, offset |-> 0,
          use_semantic_search |-> FALSE, env |-> Env(FALSE, FALSE, FALSE),
          params |-> Params(<<>>, <<>>, NONE, NoneStr, "none", DefaultLimit),
          action |-> "none", kwargs |-> NoKwargs, raises |-> FALSE,
          table |-> "none", strArgs |-> {}, filters |-> NoVectorFilters]

NoRes == [exc |-> FALSE, out |-> <<>>, merged |-> <<>>, candidates |-> <<>>,
          calls |-> <<>>, path |-> "none", alias |-> FALSE, ret |-> NoRet,
          n_results |-> NONE]

ResOf(o) == [exc |-> o.exc, out |-> o.out, merged |-> o.merged,
             candidates |-> o.candidates, calls |-> o.calls, path |-> o.path,
             alias |-> o.alias, ret |-> NoRet, n_results |-> o.n_results]

Init ==
    /\ products \in Catalogs
    /\ index \in IndexChoices
    /\ _vector_db = "None"
    /\ pc = "idle"
    /\ op = "none"
    /\ req = NoReq
    /\ res = NoRes
    /\ served = 0

\* the call's effect on the snapshot and its response
Respond(o) ==
    /\ products' = o.db
    /\ res' = ResOf(o)

\* get_vector_db(): the constructor can only fail while the handle is None
EnvOk(env) == env.vdbInitFails => _vector_db = "None"

\* ProductsRepository.search_products(query, ..., limit, offset, use_semantic_search)
SearchProducts ==
    /\ pc = "idle"
    /\ served < MaxRequests
    /\ served' = served + 1
    /\ \E query \in Queries, f \in FilterSets, limit \in 0..MaxLimit,
          offset \in 0..MaxOffset, use \in BOOLEAN, env \in Envs :
        /\ EnvOk(env)
        /\ Respond(search_products(products, index, query, f, limit, offset, use, env))
        /\ _vector_db' = IF query # <<>> /\ use /\ ~env.vdbInitFails
                                THEN "ready" ELSE _vector_db
        /\ req' = [NoReq EXCEPT !.query = query, !.f = f, !.limit = limit,
                                !.offset = offset, !.use_semantic_search = use,
                                !.env = env]
    /\ op' = "search_products"
    /\ pc' = "done"
    /\ UNCHANGED index

\* ProductsAgent.search_products(query)
AgentSearchProducts ==
    /\ pc = "idle"
    /\ served < MaxRequests
    /\ served' = served + 1
    /\ \E query \in Queries, params \in ParamSets, env \in Envs :
        /\ EnvOk(env)
        /\ Respond(agent_search_products(products, index, query, params, env))
        /\ _vector_db' = IF ~env.vdbInitFails THEN "ready" ELSE _vector_db
        /\ req' = [NoReq EXCEPT !.query = query, !.f = AgentFilters(params),
                                !.limit = params.limit, !.env = env,
                                !.params = params]
    /\ op' = "agent_search_products"
    /\ pc' = "done"
    /\ UNCHANGED index

\* the filters dict of a direct semantic_search call
VectorFilterSets ==
    { NoVectorFilters,
      [brand |-> <<>>, category |-> <<>>, price_min |-> NONE, price_max |-> 140],
      [brand |-> <<>>, category |-> <<>>, price_min |-> NONE, price_max |-> 50],
      [brand |-> <<>>, category |-> <<>>, price_min |-> 140, price_max |-> NONE],
      [brand |-> sPuma, category |-> <<>>, price_min |-> 90, price_max |-> 100] }

\* VectorDatabase.semantic_search(query, limit, filters) on an instance the
\* caller holds; fails is collection.query raising
SemanticSearch ==
    /\ pc = "idle"
    /\ served < MaxRequests
    /\ served' = served + 1
    /\ \E query \in Queries \ {<<>>}, limit \in 1..MaxLimit,
          filters \in VectorFilterSets, fails \in BOOLEAN :
        /\ res' = [NoRes EXCEPT
                     !.out = semantic_search(products, index, query, limit,
                                             filters, fails),
                     !.calls = <<"index">>,
                     !.path = "semantic",
                     !.n_results = n_results(limit)]
        /\ req' = [NoReq EXCEPT !.query = query, !.limit = limit,
                                !.filters = filters,
                                !.env = Env(fails, FALSE, FALSE)]
    /\ op' = "semantic_search"
    /\ pc' = "done"
    /\ UNCHANGED <<products, index, _vector_db>>

\* the variants asked about: a product with both attributes, one without
\* sizes, and an id that is not in the catalog
Variants ==
    { Kwargs({"product_id", "size", "color"}, <<>>, id, size, "black", <<>>) :
        id \in {1, 3, 9}, size \in {"8", "10"} }

\* ProductsRepository.check_inventory(product_id, size, color)
CheckInventory ==
    /\ pc = "idle"
    /\ served < MaxRequests
    /\ served' = served + 1
    /\ \E kw \in Variants, raises \in BOOLEAN :
        /\ res' = [NoRes EXCEPT !.ret = Ret({}, check_inventory(products,
                        kw.product_id, kw.size, kw.color, raises), FALSE,
                        "none", {"check_inventory"})]
        /\ req' = [NoReq EXCEPT !.kwargs = kw, !.raises = raises]
    /\ op' = "check_inventory"
    /\ pc' = "done"
    /\ UNCHANGED <<products, index, _vector_db>>

\* ProductsAgent.check_product_availability(product_id, size, color)
CheckProductAvailability ==
    /\ pc = "idle"
    /\ served < MaxRequests
    /\ served' = served + 1
    /\ \E kw \in Variants, raises \in BOOLEAN :
        /\ res' = [NoRes EXCEPT !.ret = check_product_availability(products,
                        kw.product_id, kw.size, kw.color, raises)]
        /\ req' = [NoReq EXCEPT !.kwargs = kw, !.raises = raises]
    /\ op' = "check_product_availability"
    /\ pc' = "done"
    /\ UNCHANGED <<products, index, _vector_db>>

\* ProductsRepository.get_product_inventory(product_id)
GetProductInventory ==
    /\ pc = "idle"
    /\ served < MaxRequests
    /\ served' = served + 1
    /\ \E id \in {1, 9}, raises \in BOOLEAN :
        /\ res' = [NoRes EXCEPT
                     !.exc = get_product_inventory(products, id, raises).exc,
                     !.out = get_product_inventory(products, id, raises).rows]
        /\ req' = [NoReq EXCEPT !.kwargs.product_id = id, !.raises = raises]
    /\ op' = "get_product_inventory"
    /\ pc' = "done"
    /\ UNCHANGED <<products, index, _vector_db>>

\* DatabaseConnection.execute_query(query, *args)
ExecuteQuery ==
    /\ pc = "idle"
    /\ served < MaxRequests
    /\ served' = served + 1
    /\ \E table \in {"products", "brands", "categories", "inventory"},
          strArgs \in {{}, {sAir}}, error \in BOOLEAN :
        /\ res' = [NoRes EXCEPT
                     !.exc = execute_query_in_memory(products, table, strArgs, error).exc,
                     !.out = execute_query_in_memory(products, table, strArgs, error).rows,
                     !.alias = table = "products" /\ strArgs = {} /\ ~error]
        /\ req' = [NoReq EXCEPT !.table = table, !.strArgs = strArgs,
                                !.raises = error]
    /\ op' = "execute_query"
    /\ pc' = "done"
    /\ UNCHANGED <<products, index, _vector_db>>

DefaultParams == Params(<<>>, <<>>, NONE, NoneStr, "none", DefaultLimit)

ToolParamSets == { DefaultParams, Params(sZzz, <<>>, NONE, NoneStr, "price-desc", 1) }

OkEnv == Env(FALSE, FALSE, FALSE)

StoreDown == Env(FALSE, TRUE, FALSE)

\* keyword arguments with one key
One(key, query, product_id, category_name) ==
    Kwargs({key}, query, product_id, NoneStr, NoneStr, category_name)

\* the keyword arguments tried with the availability action
AvailabilityKwargs ==
    { Kwargs({"product_id", "size", "color"}, <<>>, 1, "8", "black", <<>>),
      Kwargs({"product_id", "size", "color"}, <<>>, 9, "8", "black", <<>>),
      Kwargs({"product_id", "size", "color"}, <<>>, 1, NoneStr, "black", <<>>),
      Kwargs({"product_id", "size", "color"}, <<>>, NONE, "8", "black", <<>>),
      Kwargs({"query", "product_id", "size", "color"}, P1.name, NONE, "8", "black", <<>>),
      Kwargs({"query", "size", "color"}, P1.name, NONE, "10", "black", <<>>),
      One("product_id", <<>>, 1, <<>>), One("query", sZzz, NONE, <<>>),
      One("category_name", <<>>, NONE, sCasual), NoKwargs }

\* the calls of ProductsTool.execute that are explored
ToolCalls ==
    { Call("search", One("query", sAir, NONE, <<>>), p, e, FALSE) :
        p \in ToolParamSets, e \in Envs }
    \cup { Call("search", kw, DefaultParams, OkEnv, FALSE) :
             kw \in { One("query", <<>>, NONE, <<>>), NoKwargs,
                      Kwargs({"query", "product_id"}, sAir, 1, NoneStr, NoneStr, <<>>) } }
    \cup { Call("popular", kw, DefaultParams, e, FALSE) :
             kw \in { NoKwargs, One("query", sAir, NONE, <<>>) },
             e \in { OkEnv, StoreDown } }
    \cup { Call("details", kw, DefaultParams, e, FALSE) :
             kw \in { NoKwargs, One("product_id", <<>>, 1, <<>>),
                      One("product_id", <<>>, 9, <<>>),
                      One("product_id", <<>>, NONE, <<>>),
                      One("query", sAir, NONE, <<>>) },
             e \in { OkEnv, StoreDown } }
    \cup { Call("availability", kw, DefaultParams, OkEnv, r) :
             kw \in AvailabilityKwargs, r \in BOOLEAN }
    \cup { Call("category", kw, DefaultParams, e, FALSE) :
             kw \in { One("category_name", <<>>, NONE, sCasual),
                      One("category_name", <<>>, NONE, <<>>),
                      One("category_name", <<>>, NONE, sZzz),
                      One("category_name", <<>>, NONE, sAthletic), NoKwargs },
             e \in { OkEnv, StoreDown } }
    \cup { Call("bogus", kw, DefaultParams, OkEnv, FALSE) :
             kw \in { NoKwargs, One("query", sAir, NONE, <<>>) } }

\* the params dicts handed to the registered executor; "none" is a dict
\* without an action
ExecutorCalls ==
    { Call(a, kw, DefaultParams, OkEnv, FALSE) :
        a \in {"none", "search", "popular", "bogus"},
        kw \in { NoKwargs, One("query", sAir, NONE, <<>>) } }

ReqOf(c) ==
    [NoReq EXCEPT !.action = c.action, !.kwargs = c.kw, !.params = c.params,
                  !.env = c.env, !.raises = c.raises]

\* the call's effect on the snapshot and the dict it returns
RespondTool(t) ==
    /\ products' = t.o.db
    /\ res' = [ResOf(t.o) EXCEPT !.ret = t.ret]

\* ProductsTool.execute(action, **kwargs)
ToolExecute ==
    /\ pc = "idle"
    /\ served < MaxRequests
    /\ served' = served + 1
    /\ \E c \in ToolCalls :
        /\ EnvOk(c.env)
        /\ RespondTool(execute(products, index, c))
        /\ _vector_db' = IF /\ c.action = "search"
                            /\ c.kw.keys = {"query"}
                            /\ c.kw.query # <<>>
                            /\ ~c.env.vdbInitFails
                         THEN "ready" ELSE _vector_db
        /\ req' = ReqOf(c)
    /\ op' = "execute"
    /\ pc' = "done"
    /\ UNCHANGED index

\* the tool_executor closure of register_with_app, called by the application
ToolExecutor ==
    /\ pc = "idle"
    /\ served < MaxRequests
    /\ served' = served + 1
    /\ \E c \in ExecutorCalls :
        /\ RespondTool(tool_executor(products, index, c))
        /\ req' = ReqOf(c)
    /\ op' = "tool_executor"
    /\ pc' = "done"
    /\ UNCHANGED <<index, _vector_db>>

\* the caller has consumed the response; request-scoped data is dropped
Return ==
    /\ pc = "done"
    /\ pc' = "idle"
    /\ op' = "none"
    /\ req' = NoReq
    /\ res' = NoRes
    /\ UNCHANGED <<products, index, _vector_db, served>>

Next ==
    \/ SearchProducts
    \/ AgentSearchProducts
    \/ SemanticSearch
    \/ CheckInventory
    \/ CheckProductAvailability
    \/ GetProductInventory
    \/ ExecuteQuery
    \/ ToolExecute
    \/ ToolExecutor
    \/ Return

Spec == Init /\ [][Next]_vars

\* searches over a snapshot with tied products
InitTies ==
    /\ products \in TieCatalogs
    /\ index \in IndexChoices
    /\ _vector_db = "None"
    /\ pc = "idle"
    /\ op = "none"
    /\ req = NoReq
    /\ res = NoRes
    /\ served = 0

NextTies ==
    \/ SearchProducts
    \/ Return

SpecTies == InitTies /\ [][NextTies]_vars

(***************************************************************************)
(* Properties.                                                             *)
(***************************************************************************)
Done(o) == pc = "done" /\ op = o

\* position of the product with this id in a list of distinct products
PosOf(seq, id) == CHOOSE k \in 1..Len(seq) : seq[k].id = id

\* C1: ProductsRepository.search_products always returns a list; no
\* exception reaches the caller, whatever fails underneath.
C1_SearchReturnsList ==
    Done("search_products") =>
        /\ ~res.exc
        /\ \A i \in 1..Len(res.out) : res.out[i].id \in ProductIds

C1_Witness ==
    /\ Done("search_products")
    /\ req.env.vdbInitFails
    /\ res.path = "exception"
    /\ res.out = <<>>

C3_AllFiltersHold ==
    (pc = "done" /\ ~res.exc) =>
        \A i \in 1..Len(res.out) :
            /\ req.f.category_id # NONE => res.out[i].category_id = req.f.category_id
            /\ req.f.brand_id # NONE => res.out[i].brand_id = req.f.brand_id
            /\ StrictMatch(res.out[i], req.f.price_min, req.f.price_max,
                           req.f.size, req.f.color)

\* C4: when the index query raises, the result is the one of the
\* structured-only path (use_semantic_search = False) for the same request.
C4_IndexDownEqualsStructuredOnly ==
    (/\ Done("search_products")
     /\ req.query # <<>>
     /\ req.use_semantic_search
     /\ req.env.indexFails) =>
        Ids(res.out) =
            Ids(search_products(products, index, req.query, req.f, req.limit,
                                req.offset, FALSE, req.env).out)

C8_SortBeforeLimit ==
    (Done("agent_search_products") /\ ~res.exc /\ req.params.sort # "none") =>
        /\ Len(res.out) = Min(req.limit, Len(res.merged))
        /\ \A i \in 1..Len(res.out), k \in 1..Len(res.merged) :
              res.merged[k].id \notin IdSet(res.out) =>
                  IF req.params.sort = "price-desc"
                  THEN EffectivePrice(res.merged[k]) <= EffectivePrice(res.out[i])
                  ELSE EffectivePrice(res.merged[k]) >= EffectivePrice(res.out[i])

RECURSIVE ConcatPages(_, _)
ConcatPages(page, k) ==
    IF k < 0 THEN <<>> ELSE ConcatPages(page, k - 1) \o page[k]

C15_EachTierAtMostOnce ==
    pc = "done" =>
        \A t \in {"index", "store", "fallback"} :
            Cardinality({ i \in 1..Len(res.calls) : res.calls[i] = t }) <= 1

\* C16: the shared snapshot is never changed: every product keeps its fields
\* and values and the product list keeps its order.
C16_SnapshotUnchanged == products \in Catalogs

\* C18: a brand or category name that matches no brand or category is
\* answered with an InvalidFilter outcome, never with a search.
C18_UnknownNameIsInvalidFilter ==
    (/\ Done("agent_search_products")
     /\ \/ (req.params.brand # <<>> /\ ResolveBrand(req.params.brand) = NONE)
        \/ (req.params.category # <<>> /\ ResolveCategory(req.params.category) = NONE)) =>
        /\ res.path = "invalid_filter"
        /\ res.out = <<>>

\* the stock records stored under the composite key of the request
StoredUnder(kw) ==
    { r \in Inventory : /\ r.product_id = kw.product_id
                        /\ r.size = kw.size
                        /\ r.color = kw.color }

\* C13: an availability check whose lookup fails answers neither "the
\* variant does not exist" nor "out of stock", and a variant stored with
\* empty stock is answered with quantity 0.
C13_FailedLookupIsUnknown ==
    Done("check_product_availability") =>
        /\ (req.raises /\ HasDb(products, req.kwargs.product_id)) =>
              res.ret.response \notin {"not available", "out of stock"}
        /\ (~req.raises /\ \E r \in StoredUnder(req.kwargs) : r.quantity = 0) =>
              /\ res.ret.inventory # <<>>
              /\ res.ret.inventory[1].quantity = 0

\* C14: check_inventory returns the record stored under (product_id, size,
\* color), or None when there is none, and check_product_availability says
\* available exactly when that record exists with a quantity above zero.
C14_InventoryIsStoredRecord ==
    /\ (Done("check_inventory") /\ ~req.raises) =>
          IF StoredUnder(req.kwargs) = {}
          THEN res.ret.inventory = <<>>
          ELSE /\ res.ret.inventory # <<>>
               /\ res.ret.inventory[1] \in StoredUnder(req.kwargs)
    /\ (Done("check_product_availability") /\ ~req.raises) =>
          (res.ret.available <=> \E r \in StoredUnder(req.kwargs) : r.quantity > 0)

\* C17: a failing store query is reported as an error, never as an empty
\* row list, by execute_query and by the repository reads built on it.
C17_StoreFailureIsError ==
    ((Done("execute_query") \/ Done("get_product_inventory")) /\ req.raises) =>
        res.exc

\* C19: the registered executor, given params with an action, runs
\* ProductsTool.execute once with that action and the other params and
\* returns its result; given params without an action it returns the error
\* dict without running execute.
C19_ExecutorDelegatesToExecute ==
    Done("tool_executor") =>
        IF req.action # "none"
        THEN /\ ~res.exc
             /\ "execute" \in res.ret.invoked
             /\ res.ret = execute(products, index,
                                  Call(req.action, req.kwargs, req.params,
                                       req.env, req.raises)).ret
        ELSE /\ ~res.exc
             /\ res.ret.keys = {"error", "response"}
             /\ "execute" \notin res.ret.invoked

\* C20: ProductsTool.execute never raises; it returns a dict with
\* 'response', and with 'error' too when the action is unknown.
C20_ExecuteNeverRaises ==
    Done("execute") =>
        /\ ~res.exc
        /\ "response" \in res.ret.keys
        /\ req.action \notin {"search", "details", "availability", "category",
                              "popular"} => "error" \in res.ret.keys

C20_Witness ==
    /\ Done("execute")
    /\ req.action = "search"
    /\ req.env.vdbInitFails
    /\ "search_products" \in res.ret.invoked
    /\ res.ret.keys = {"error", "response"}

\* the agent method a tool action is answered by
AgentMethodOf(action) ==
    CASE action = "search" -> "search_products"
      [] action = "details" -> "get_product_details"
      [] action = "availability" -> "check_product_availability"
      [] action = "category" -> "get_category_products"
      [] OTHER -> "none"

\* a required argument of the action is given but empty
EmptyArgument(action, kw) ==
    \/ action = "search" /\ kw.keys = {"query"} /\ kw.query = <<>>
    \/ action = "details" /\ kw.keys = {"product_id"} /\ kw.product_id = NONE
    \/ /\ action = "availability"
       /\ kw.keys = {"product_id", "size", "color"}
       /\ (kw.product_id = NONE \/ kw.size = NoneStr \/ kw.color = NoneStr)
    \/ action = "category" /\ kw.keys = {"category_name"} /\ kw.category_name = <<>>

\* C21: a tool action whose required argument is empty is answered with a
\* dict holding 'error', and the action's agent method is not called.
C21_EmptyArgumentIsError ==
    (Done("execute") /\ EmptyArgument(req.action, req.kwargs)) =>
        /\ "error" \in res.ret.keys
        /\ AgentMethodOf(req.action) \notin res.ret.invoked

\* C22: whenever the index returned a candidate, the store is queried
\* (restricted to the candidates) before the result is put together,
\* whatever filters were supplied.
C22_CandidatesAlwaysFiltered ==
    (Done("search_products") /\ res.candidates # <<>>) =>
        \E i, j \in 1..Len(res.calls) :
            i < j /\ res.calls[i] = "index" /\ res.calls[j] = "store"

\* C23: the in-memory fallback runs only after the store was queried for
\* the request and failed.
C23_FallbackOnlyAfterStoreFailed ==
    (Done("search_products") /\ "fallback" \in { res.calls[i] : i \in 1..Len(res.calls) }) =>
        /\ req.env.storeFails
        /\ \E i, j \in 1..Len(res.calls) :
              i < j /\ res.calls[i] = "store" /\ res.calls[j] = "fallback"

CandidatesOf(r) ==
    semantic_search(products, index, r.query, Min(r.limit * 3, 50),
                    VectorFilters(r.f), r.env.indexFails)

\* C30: in hybrid_search the in-memory fallback search runs only when semantic
\* search is disabled or the semantic tier returned no candidate; with at least
\* one candidate and a successful store query the fallback is not invoked, and
\* when no candidate passes the store filtering the result is the empty list.
C30_NoFallbackAfterCandidates ==
    (Done("search_products") /\ req.query # <<>> /\ ~req.env.vdbInitFails) =>
        /\ ("fallback" \in { res.calls[i] : i \in 1..Len(res.calls) }
                => (~req.use_semantic_search \/ CandidatesOf(req) = <<>>))
        /\ (/\ req.use_semantic_search
            /\ CandidatesOf(req) # <<>>
            /\ NeedsSql(req.f)
            /\ ~req.env.storeFails
            /\ PostProcess(CandidatesOf(req), req.f.size, req.f.color) = <<>>)
               => res.out = <<>> /\ "fallback" \notin { res.calls[i] : i \in 1..Len(res.calls) }

\* a hybrid search whose candidates are all removed by the store filtering
C30_Witness ==
    /\ Done("search_products")
    /\ req.use_semantic_search
    /\ res.path = "sql_merge"
    /\ res.candidates # <<>>
    /\ res.merged = <<>>
    /\ res.out = <<>>
    /\ res.calls = <<"index", "store">>


\* some entry of the table is named in the lower-cased query
Names(table, query_lower) ==
    \E k \in 1..Len(table) : StrContains(StrLower(table[k].name), query_lower)

\* the entry with this id is named in the lower-cased query
NamesId(table, id, query_lower) ==
    \E k \in 1..Len(table) :
        table[k].id = id /\ StrContains(StrLower(table[k].name), query_lower)

\* the text match the fallback search is to make for product p
Selected(p, query_lower) ==
    IF Names(Brands, query_lower) /\ StrContains(sShoes, query_lower)
    THEN NamesId(Brands, p.brand_id, query_lower)
    ELSE IF Names(Categories, query_lower) /\ StrContains(sShoes, query_lower)
    THEN NamesId(Categories, p.category_id, query_lower)
    ELSE \/ StrContains(query_lower, StrLower(p.name))
         \/ StrContains(query_lower, StrLower(p.description))

\* C26: the fallback search with query text selects the products of a brand
\* named together with "shoes", else those of a category named together
\* with "shoes", else the products whose name or description contains the
\* query ignoring case; the other filters are applied to that selection.
C26_FallbackTextMatch ==
    (Done("search_products") /\ res.path = "fallback" /\ req.query # <<>>) =>
        \A k \in 1..Len(products) :
            products[k].id \in IdSet(res.merged)
                <=> /\ Selected(products[k], StrLower(req.query))
                    /\ OtherFilters(<<products[k]>>, req.f) # <<>>

\* a category named with "shoes" selects products whose text lacks the query
C26_Witness ==
    /\ Done("search_products")
    /\ res.path = "fallback"
    /\ req.query = sCasualShoes
    /\ req.f = NoFilters
    /\ IdSet(res.merged) = {3, 5}


\* C27: a search with limit L that reaches the semantic index asks it for
\* min(3*L, hard_cap) neighbours, in hybrid_search and in the agent's
\* semantic_search_products alike (here: for some cap, request by request).
C27_NeighborsRequested ==
    /\ (Done("search_products") /\ res.n_results # NONE) =>
            \E hard_cap \in 0..50 : res.n_results = Min(3 * req.limit, hard_cap)
    /\ (Done("agent_search_products") /\ res.n_results # NONE) =>
            \E hard_cap \in 0..50 :
                res.n_results = Min(3 * req.params.limit, hard_cap)


\* C29: every product semantic_search returns for filters with price_min
\* and/or price_max has an effective price within those bounds (so the list
\* is empty when no candidate is within them).
C29_SemanticPriceBounds ==
    (Done("semantic_search")
       /\ (req.filters.price_min # NONE \/ req.filters.price_max # NONE)) =>
        \A i \in 1..Len(res.out) :
            /\ req.filters.price_min # NONE
                  => EffectivePrice(res.out[i]) >= req.filters.price_min
            /\ req.filters.price_max # NONE
                  => EffectivePrice(res.out[i]) <= req.filters.price_max


\* C24: two products of one result list that have the same featured flag and
\* the same effective price, and no relevance score, appear in ascending
\* product id order, whatever their order in the snapshot.
C24_TiesByProductId ==
    Done("search_products") =>
        \A i, j \in 1..Len(res.out) :
            (/\ i < j
             /\ "relevance_score" \notin res.out[i].keys
             /\ "relevance_score" \notin res.out[j].keys
             /\ GetIsFeatured(res.out[i]) = GetIsFeatured(res.out[j])
             /\ EffectivePrice(res.out[i]) = EffectivePrice(res.out[j]))
                => res.out[i].id < res.out[j].id

====
